---- MODULE Spec2Model ----
(***************************************************************************)
(* A model of the connection core of the driver:                           *)
(*   - ClientConnection (src/src/client_connection.hpp): the protocol      *)
(*     state machine, stream multiplexing and response dispatch;           *)
(*   - RequestQueue (src/cpp-driver/src/request_queue.hpp): the            *)
(*     flush-coalescing submission queue.                                  *)
(* StreamStorage, the Message framer, the SSL session and the bodies of    *)
(* RequestQueue's methods are not part of the available sources; they are  *)
(* modelled from the written specification of the component.               *)
(***************************************************************************)
EXTENDS Integers, Sequences, FiniteSets, TLC

VARIABLES
  cfg,              \* build and construction parameters (fixed per run)
  state_,           \* ClientConnection::state_
  stream_storage_,  \* ClientConnection::stream_storage_: occupied id -> occupant
  incoming_,        \* ClientConnection::incoming_: bytes of the partial frame
  ssl_hs,           \* what ssl_->handshake_done() answers
  sock,             \* the libuv requests in flight for socket_
  sent,             \* frames handed to send_data, per kind
  futures,          \* the MessageFutureImpl objects given to execute
  steps,            \* what the last handler did: states entered, handshake
                    \* frames sent, connect callbacks made, in order
  obs,              \* what has been observed of the connection so far
  rq,               \* RequestQueue fields
  worker,           \* the queue's worker: position inside handle_flush
  producers,        \* producer threads: position inside write()
  cycle,            \* the current drain cycle's writes and flushes
  pool,             \* the pooled connections the queue's items are for
  feed,             \* a byte stream delivered to on_read in chunks, and the
                    \* frames consume() logged for it
  loop              \* a call of consume() followed turn by turn: its
                    \* arguments and its locals

connVars == <<cfg, state_, stream_storage_, incoming_, ssl_hs, sock, sent,
              futures, steps, obs>>
queueVars == <<rq, worker, producers, cycle, pool>>
otherVars == <<cfg, feed, loop, rq, worker, producers, cycle, pool>>
vars == <<cfg, state_, stream_storage_, incoming_, ssl_hs, sock, sent,
          futures, steps, obs, rq, worker, producers, cycle, pool, feed, loop>>

----------------------------------------------------------------------------
(* Bounds of the model *)

\* application requests given to execute in the general specification
MaxRequests == 2
\* frames the server sends in a run of the general specification
MaxFrames == 3
\* set_keyspace calls in the general specification
MaxKeyspace == 1
\* read_write calls the SSL session needs for the input of one read
MaxSslCalls == 3
\* options frames sent after which no further read with SSL is followed
MaxOptions == 2

\* the end-to-end fill scenario: requests submitted with no response, responses
\* that then arrive, requests submitted after them
FillSubmit == 200
FillAnswer == 50

\* frames in the byte stream of the chunked delivery
MaxFeedFrames == 2

\* turns of consume()'s loop that are followed in one call
MaxIterations == 3

----------------------------------------------------------------------------
(* Program constants *)

CASS_STREAM_ID_MAX == 127

\* enum ClientConnectionState, in declaration order
ClientConnectionState ==
  <<"NEW", "CONNECTED", "HANDSHAKE", "SUPPORTED", "READY",
    "DISCONNECTING", "DISCONNECTED">>

StateRank(s) == CHOOSE i \in 1..Len(ClientConnectionState) :
                   ClientConnectionState[i] = s

\* protocol opcodes used by the dispatch in consume()
CQL_OPCODE_ERROR == 0
CQL_OPCODE_READY == 2
CQL_OPCODE_SUPPORTED == 6
CQL_OPCODE_RESULT == 8
CQL_OPCODE_EVENT == 12

\* result kinds used by on_result()
CASS_RESULT_KIND_ROWS == 2
CASS_RESULT_KIND_SET_KEYSPACE == 3
CASS_RESULT_KIND_PREPARED == 4

----------------------------------------------------------------------------
(* StreamStorage<Stream, MessageFutureImpl*, CASS_STREAM_ID_MAX>           *)
(* A fixed table of ids 0..CASS_STREAM_ID_MAX. An occupant is 0 for the    *)
(* NULL request of a driver-internal frame, or the number of a future.     *)

StreamIds == 0..CASS_STREAM_ID_MAX

Capacity == CASS_STREAM_ID_MAX + 1

EmptyStorage == [i \in {} |-> 0]

StorageAvailable(ss) == Capacity - Cardinality(DOMAIN ss)

\* the id acquire hands out: the lowest free one
StorageNextId(ss) ==
  CHOOSE i \in StreamIds : i \notin DOMAIN ss /\ \A j \in 0..(i - 1) : j \in DOMAIN ss

\* set_stream(input, output): error when no id is free, else occupies one
StorageSetStream(ss, occupant) ==
  IF StorageAvailable(ss) = 0
  THEN [error |-> TRUE, id |-> -1, ss |-> ss]
  ELSE LET id == StorageNextId(ss)
       IN [error |-> FALSE, id |-> id,
           ss |-> [i \in DOMAIN ss \cup {id} |-> IF i = id THEN occupant ELSE ss[i]]]

\* get_stream(input, output): removes and returns the occupant; error when the
\* id has none (output is then left untouched)
StorageGetStream(ss, id) ==
  IF id \in DOMAIN ss
  THEN [error |-> FALSE, found |-> TRUE, value |-> ss[id],
        ss |-> [i \in DOMAIN ss \ {id} |-> ss[i]]]
  ELSE [error |-> TRUE, found |-> FALSE, value |-> 0, ss |-> ss]

----------------------------------------------------------------------------
(* Wire format and the Message framer                                      *)
(* A frame is a header <<opcode, stream, body length>> followed by the     *)
(* body; the stream byte is a signed 8-bit value in two's complement.      *)

HeaderSize == 3

ToByte(stream) == stream % 256

FromByte(b) == IF b >= 128 THEN b - 256 ELSE b

Encode(f) == <<f.opcode, ToByte(f.stream), Len(f.body)>> \o f.body

Decode(m) == [opcode |-> m[1], stream |-> FromByte(m[2]),
              body |-> SubSeq(m, HeaderSize + 1, Len(m))]

Min(a, b) == IF a < b THEN a ELSE b

\* Message::consume(buffer, remaining) on the partial message m: takes the
\* bytes the header still needs, then the bytes the body still needs
MessageConsume(m, buffer) ==
  LET hneed == IF Len(m) < HeaderSize THEN HeaderSize - Len(m) ELSE 0
      htake == Min(hneed, Len(buffer))
      m1 == m \o SubSeq(buffer, 1, htake)
      header_received == Len(m1) >= HeaderSize
      bneed == IF header_received THEN HeaderSize + m1[HeaderSize] - Len(m1) ELSE 0
      btake == Min(bneed, Len(buffer) - htake)
      m2 == m1 \o SubSeq(buffer, htake + 1, htake + btake)
  IN [m |-> m2, consumed |-> htake + btake,
      body_ready |-> header_received /\ Len(m2) = HeaderSize + m1[HeaderSize]]

----------------------------------------------------------------------------
(* The connection as a value: the handlers below are functions from the    *)
(* connection before a call to the connection after it, so that a handler  *)
(* and everything it calls form one step.                                  *)

World == [state_ |-> state_, stream_storage_ |-> stream_storage_,
          incoming_ |-> incoming_, ssl_hs |-> ssl_hs, sock |-> sock,
          sent |-> sent, futures |-> futures, steps |-> steps, obs |-> obs,
          ret |-> "none", dispatched |-> <<>>]

Commit(w) ==
  /\ state_' = w.state_
  /\ stream_storage_' = w.stream_storage_
  /\ incoming_' = w.incoming_
  /\ ssl_hs' = w.ssl_hs
  /\ sock' = w.sock
  /\ sent' = w.sent
  /\ futures' = w.futures
  /\ steps' = w.steps
  /\ obs' = w.obs

\* the callbacks the previous handler invoked are forgotten when a handler starts
Enter(w) == [w EXCEPT !.obs.called = {}, !.steps = <<>>]

Called(w, name) == [w EXCEPT !.obs.called = @ \cup {name}]

SetState(w, s) == [w EXCEPT !.state_ = s, !.steps = Append(@, s)]

\* assert(false): aborts the process unless the build defines NDEBUG
AssertFalse(w) ==
  IF cfg.ndebug THEN w ELSE [w EXCEPT !.obs.crashed = TRUE]

\* a call through an empty std::function throws std::bad_function_call, which
\* nothing catches
BadFunctionCall(w) == [w EXCEPT !.obs.crashed = TRUE]

\* a member access through a null MessageFutureImpl*: undefined behaviour,
\* which either faults or goes unnoticed
NullDeref(w, env) ==
  [w EXCEPT !.obs.ub = TRUE,
            !.obs.crashed = @ \/ env.ub = "crash"]

\* send_data(buf): one uv_write per call, completed later by on_write. The
\* frames sent are counted per kind; the SSL session's own handshake messages
\* are not frames
SendData(w, what) ==
  [w EXCEPT !.sent[what] = IF what = "TLS" THEN @ ELSE @ + 1,
            !.sock.writing = TRUE,
            !.steps = IF what \in {"OPTIONS", "STARTUP"}
                      THEN Append(@, "send_" \o what) ELSE @,
            !.ret = "ok"]

\* execute(message, request): request is 0 for NULL, else a future's number
\* (variant: the frame is written although set_stream failed)
ExecuteSendsOnError(w, what, request, env) ==
  LET r == StorageSetStream(w.stream_storage_, request)
      w1 == [w EXCEPT !.stream_storage_ = r.ss,
                      !.futures = IF request > 0
                                  THEN [@ EXCEPT ![request].stream = r.id,
                                                 ![request].held = TRUE]
                                  ELSE @]
  IN IF r.error THEN [SendData(w, what) EXCEPT !.ret = "no_streams"]
     ELSE IF ~env.prep THEN [w1 EXCEPT !.ret = "prepare"]
     ELSE SendData(w1, what)

Execute(w, what, request, env) ==
  LET r == StorageSetStream(w.stream_storage_, request)
      w1 == [w EXCEPT !.stream_storage_ = r.ss,
                      !.futures = IF request > 0
                                  THEN [@ EXCEPT ![request].stream = r.id,
                                                 ![request].held = TRUE]
                                  ELSE @]
  IN IF r.error THEN [w EXCEPT !.ret = "no_streams"]
     ELSE IF ~env.prep THEN [w1 EXCEPT !.ret = "prepare"]
     ELSE SendData(w1, what)

SendOptions(w, env) == Execute(w, "OPTIONS", 0, env)

SendStartup(w, env) == Execute(w, "STARTUP", 0, env)

NotifyReady(w) ==
  IF cfg.connect_callback_
  THEN [Called(w, "connect_ok") EXCEPT !.steps = Append(@, "connect_cb_ok")]
  ELSE w

NotifyError(w) ==
  IF cfg.connect_callback_
  THEN [Called(w, "connect_err") EXCEPT !.steps = Append(@, "connect_cb_err")]
  ELSE w

\* connect(): uv_tcp_init and uv_tcp_connect
Connect(w) == [w EXCEPT !.sock.connecting = TRUE]

\* the read with nread = 0 that ssl_handshake() makes on an SSL connection:
\* read_write() yields the first handshake message, all (no) input is read
SslFirstRead(w) == SendData(w, "TLS")

\* (variant: without SSL the options are sent from the state CONNECTED)
SslHandshakeKeepsState(w, env) ==
  IF cfg.ssl_
  THEN SslFirstRead(w)
  ELSE SendOptions(w, env)

\* ssl_handshake(), with the event_received() it makes without SSL inlined
SslHandshake(w, env) ==
  IF cfg.ssl_
  THEN SslFirstRead(w)
  ELSE SendOptions(SetState(w, "HANDSHAKE"), env)

EventReceived(w, env) ==
  CASE w.state_ = "NEW" -> Connect(w)
    [] w.state_ = "CONNECTED" -> SslHandshake(w, env)
    [] w.state_ = "HANDSHAKE" -> SendOptions(w, env)
    [] w.state_ = "SUPPORTED" -> SendStartup(w, env)
    [] w.state_ = "READY" -> NotifyReady(w)
    [] OTHER -> AssertFalse(w)

\* request->error / request->result and request->notify(loop_) on future r
Resolve(w, r, how) ==
  [w EXCEPT !.futures[r].result = how,
            !.futures[r].notified = @ + 1,
            !.futures[r].held = FALSE,
            !.obs.called = @ \cup {"notify"}]

\* the correlation both non-keyspace branches of on_result share
Correlate(w, stream, env) ==
  LET g == StorageGetStream(w.stream_storage_, stream)
      w1 == [w EXCEPT !.stream_storage_ = g.ss,
                      !.obs.orphan = @ \/ ~g.found]
  IN IF g.found /\ g.value > 0
     THEN Resolve(w1, g.value, "result")
     ELSE NullDeref(w1, env)

\* result->kind: the first byte of the body; a body without bytes names none
\* of the kinds on_result tells apart
ResultKind(response) ==
  IF Len(response.body) > 0 THEN response.body[1] ELSE 0

RequestFinished(w) ==
  IF w.obs.crashed THEN w
  ELSE IF cfg.request_finished_callback_ THEN Called(w, "request_finished")
  ELSE w

\* (variant: a set-keyspace result is given to the request of its stream id)
OnResultKeyspaceResolves(w, response, env) ==
  LET kind == ResultKind(response)
  IN CASE kind = CASS_RESULT_KIND_SET_KEYSPACE ->
            RequestFinished(Correlate(IF cfg.keyspace_callback_
                                      THEN Called(w, "keyspace") ELSE w,
                                      response.stream, env))
       [] kind = CASS_RESULT_KIND_PREPARED ->
            LET w1 == Correlate(w, response.stream, env)
            IN IF w1.obs.crashed THEN w1
               ELSE IF cfg.prepare_callback_
               THEN RequestFinished(Called(w1, "prepare"))
               ELSE BadFunctionCall(w1)
       [] OTHER -> RequestFinished(Correlate(w, response.stream, env))

\* (variant: a set-keyspace result frees the frame's stream id)
OnResultKeyspaceFrees(w, response, env) ==
  LET kind == ResultKind(response)
  IN CASE kind = CASS_RESULT_KIND_SET_KEYSPACE ->
            RequestFinished(
              [w EXCEPT !.stream_storage_ =
                          StorageGetStream(w.stream_storage_, response.stream).ss])
       [] kind = CASS_RESULT_KIND_PREPARED ->
            LET w1 == Correlate(w, response.stream, env)
            IN IF w1.obs.crashed THEN w1
               ELSE IF cfg.prepare_callback_
               THEN RequestFinished(Called(w1, "prepare"))
               ELSE BadFunctionCall(w1)
       [] OTHER -> RequestFinished(Correlate(w, response.stream, env))

OnResult(w, response, env) ==
  LET kind == ResultKind(response)
  IN CASE kind = CASS_RESULT_KIND_SET_KEYSPACE ->
            RequestFinished(IF cfg.keyspace_callback_
                            THEN Called(w, "keyspace") ELSE w)
       [] kind = CASS_RESULT_KIND_PREPARED ->
            LET w1 == Correlate(w, response.stream, env)
            IN IF w1.obs.crashed THEN w1
               ELSE IF cfg.prepare_callback_
               THEN RequestFinished(Called(w1, "prepare"))
               ELSE BadFunctionCall(w1)
       [] OTHER -> RequestFinished(Correlate(w, response.stream, env))

OnError(w, response) ==
  LET w1 == IF response.stream \in DOMAIN w.stream_storage_
               /\ w.stream_storage_[response.stream] > 0
               /\ w.state_ = "READY"
            THEN [w EXCEPT !.obs.errored = @ \cup {w.stream_storage_[response.stream]}]
            ELSE w
  IN IF StateRank(w.state_) < StateRank("READY") THEN NotifyError(w1) ELSE w1

OnReady(w, env) == EventReceived(SetState(w, "READY"), env)

OnSupported(w, env) == EventReceived(SetState(w, "SUPPORTED"), env)

Malformed(f) ==
  \/ f.stream < 0
  \/ f.opcode \notin {CQL_OPCODE_SUPPORTED, CQL_OPCODE_ERROR,
                      CQL_OPCODE_READY, CQL_OPCODE_RESULT}

\* the body of consume()'s "if (incoming_->body_ready)"
Dispatch(w, message, env) ==
  LET w1 == [w EXCEPT !.obs.malformed = @ \/ Malformed(message),
                      !.obs.later = @ \/ w.obs.orphan,
                      !.obs.frames = @ + 1,
                      !.dispatched = Append(@, <<message.opcode, message.stream>>)]
  IN IF message.stream < 0 THEN AssertFalse(w1)
     ELSE CASE message.opcode = CQL_OPCODE_SUPPORTED -> OnSupported(w1, env)
            [] message.opcode = CQL_OPCODE_ERROR -> OnError(w1, message)
            [] message.opcode = CQL_OPCODE_READY -> OnReady(w1, env)
            [] message.opcode = CQL_OPCODE_RESULT -> OnResult(w1, message, env)
            [] OTHER -> AssertFalse(w1)

\* (variant: the bytes of an incomplete frame are not kept for the next call)
RECURSIVE ConsumeDropsPartial(_, _, _)
ConsumeDropsPartial(w, buffer, env) ==
  IF Len(buffer) = 0 \/ w.obs.crashed THEN w
  ELSE LET c == MessageConsume(<<>>, buffer)
           w1 == IF c.body_ready
                 THEN Dispatch([w EXCEPT !.incoming_ = <<>>], Decode(c.m), env)
                 ELSE [w EXCEPT !.incoming_ = c.m]
       IN ConsumeDropsPartial(w1, SubSeq(buffer, c.consumed + 1, Len(buffer)), env)

\* consume(input, size): the loop over the chunk
RECURSIVE Consume(_, _, _)
Consume(w, buffer, env) ==
  IF Len(buffer) = 0 \/ w.obs.crashed THEN w
  ELSE LET c == MessageConsume(w.incoming_, buffer)
           w1 == IF c.body_ready
                 THEN Dispatch([w EXCEPT !.incoming_ = <<>>], Decode(c.m), env)
                 ELSE [w EXCEPT !.incoming_ = c.m]
       IN Consume(w1, SubSeq(buffer, c.consumed + 1, Len(buffer)), env)

\* close(): uv_close, completed later by on_close
Close(w) == [SetState(w, "DISCONNECTING") EXCEPT !.sock.closing = TRUE]

----------------------------------------------------------------------------
(* The connection's operations and the events libuv delivers to it *)

Alive == ~obs.crashed

NewFuture == [ret |-> "none", stream |-> -1, held |-> FALSE,
              result |-> "none", notified |-> 0]

\* the choices a handler's collaborators make: whether Message::prepare
\* succeeds, and what a null dereference does
Envs == [prep : BOOLEAN, ub : {"crash", "continue"}]

\* for a read: the frames the driver itself sends always serialize
ReadEnvs == {e \in Envs : e.prep}

\* for a call of the application: no response is dispatched during it
CallEnvs == {e \in Envs : e.ub = "crash"}

EnvOk == [prep |-> TRUE, ub |-> "crash"]

\* init(connect, request_finished, keyspace)
DoInit ==
  /\ Alive /\ ~sock.inited
  /\ Commit(EventReceived([Enter(World) EXCEPT !.sock.inited = TRUE], EnvOk))
  /\ UNCHANGED otherVars

\* on_connect(request, status)
OnConnect(status, env) ==
  /\ Alive /\ sock.connecting /\ ~sock.closing
  /\ LET w == [Enter(World) EXCEPT !.sock.connecting = FALSE]
     IN IF status = -1
        THEN Commit(IF cfg.connect_callback_
                    THEN [Called(w, "connect_ok") EXCEPT
                            !.steps = Append(@, "connect_cb_ok")]
                    ELSE w)
        ELSE Commit(EventReceived(
                      SetState([w EXCEPT !.sock.reading = TRUE], "CONNECTED"), env))
  /\ UNCHANGED otherVars

\* on_read(client, nread, buf) with nread = Len(buffer) >= 0 on a connection
\* without SSL
OnRead(buffer, env) ==
  /\ Alive /\ sock.reading /\ ~sock.closing /\ ~cfg.ssl_
  /\ Commit(Consume(Enter(World), buffer, env))
  /\ UNCHANGED otherVars

\* on_read with SSL: the for(;;) loop around ssl_->read_write(). The session
\* needs Len(calls) calls to read all the input; in call i it yields the
\* decrypted bytes calls[i].output, asks to send a handshake message when
\* calls[i].write, and completes its handshake when calls[i].done. Every call
\* but the last leaves input unread and is followed by the handshake_done()
\* test; the last one breaks out of the loop before it
RECURSIVE SslLoop(_, _, _)
SslLoop(w, calls, env) ==
  LET call == Head(calls)
      w0 == [w EXCEPT !.ssl_hs = @ \/ call.done]
      w1 == IF Len(call.output) > 0 THEN Consume(w0, call.output, env) ELSE w0
      w2 == IF call.write /\ ~w1.obs.crashed THEN SendData(w1, "TLS") ELSE w1
  IN IF Len(calls) = 1 \/ w2.obs.crashed THEN w2
     ELSE SslLoop(IF ~cfg.ssl_handshake_done_ /\ w2.ssl_hs
                  THEN EventReceived(SetState(w2, "HANDSHAKE"), env)
                  ELSE w2,
                  Tail(calls), env)

\* what a session can answer in one read, done telling whether its handshake
\* was complete before: it yields decrypted bytes only once the handshake is
\* complete, completes it at most once, and writes handshake messages only
\* until then; once the handshake is complete a read brings a frame
SslSessionOk(calls, done) ==
  /\ \A i \in 1..Len(calls) :
       LET before == done \/ \E j \in 1..(i - 1) : calls[j].done
       IN /\ Len(calls[i].output) > 0 => before
          /\ calls[i].done => ~before
          /\ calls[i].write => ~before
  /\ done => \E i \in 1..Len(calls) : Len(calls[i].output) > 0

OnReadSsl(calls, env) ==
  /\ Alive /\ sock.reading /\ ~sock.closing /\ cfg.ssl_
  /\ Len(calls) > 0
  /\ SslSessionOk(calls, ssl_hs)
  /\ Commit(SslLoop(Enter(World), calls, env))
  /\ UNCHANGED otherVars

\* on_read with nread = -1: a read error or EOF
OnReadError ==
  /\ Alive /\ sock.reading /\ ~sock.closing
  /\ Commit(Close([Enter(World) EXCEPT !.obs.sockerr = TRUE]))
  /\ UNCHANGED otherVars

\* on_write(req, status): the completion of an earlier uv_write. It logs a
\* failed status and frees the buffer, and touches nothing of the connection
OnWrite(status) ==
  /\ Alive /\ sock.writing
  /\ Commit([World EXCEPT !.obs.sockerr = @ \/ status = -1])
  /\ UNCHANGED otherVars

\* close(), called by the connection's owner
DoClose ==
  /\ Alive /\ sock.inited /\ ~sock.closing /\ ~sock.closed
  /\ Commit(Close(Enter(World)))
  /\ UNCHANGED otherVars

\* on_close(client)
OnClose ==
  /\ Alive /\ sock.closing
  /\ Commit(EventReceived(
       SetState([Enter(World) EXCEPT !.sock.closing = FALSE,
                                     !.sock.closed = TRUE,
                                     !.sock.connecting = FALSE,
                                     !.sock.reading = FALSE], "DISCONNECTED"),
       EnvOk))
  /\ UNCHANGED otherVars

\* execute(message, request) with a new future, called by the connection's
\* user once the connection is ready
DoExecute(env) ==
  /\ Alive /\ state_ = "READY"
  /\ LET r == Len(futures) + 1
         w == Execute([Enter(World) EXCEPT !.futures = Append(@, NewFuture)],
                      "QUERY", r, env)
     IN Commit([w EXCEPT !.futures[r].ret = w.ret])
  /\ UNCHANGED otherVars

\* set_keyspace(keyspace)
SetKeyspace(env) ==
  /\ Alive /\ state_ = "READY"
  /\ obs.keyspace_calls < MaxKeyspace
  /\ Commit(Execute([Enter(World) EXCEPT !.obs.keyspace_calls = @ + 1],
                    "KEYSPACE", 0, env))
  /\ UNCHANGED otherVars

----------------------------------------------------------------------------
(* RequestQueue. Producer threads call write(); the owning worker runs     *)
(* handle_flush() from the wake handle (on_flush) or from the fallback     *)
(* timer (on_flush_timer). Steps of different threads interleave.          *)

\* producer threads, pooled connections, capacity of the bounded queue, write()
\* calls in a run, idle timer cycles before the timer backs off
NumProducers == 2
NumConnections == 2
QueueSize == 2
MaxWrites == 4
IdleLimit == 1

Producers == 1..NumProducers

Connections == 1..NumConnections

\* the stream ids a pooled connection has free when the run starts: one, or
\* all of them
PoolFree == {1, Capacity}

\* a pooled connection: its free stream ids and the frames written to it
\* that no flush has sent yet
Pooled(free) == [available |-> free, pending |-> 0]

FullPool == [c \in Connections |-> Pooled(Capacity)]

Pools == [Connections -> {Pooled(free) : free \in PoolFree}]

NoCycle == [drained |-> <<>>,
            writes |-> [c \in Connections |-> 0],
            errors |-> [c \in Connections |-> 0],
            flushes |-> [c \in Connections |-> 0],
            free |-> [c \in Connections |-> 0],
            running |-> 0,
            done |-> FALSE]

Occurrences(seq, c) == Cardinality({i \in 1..Len(seq) : seq[i] = c})

\* init(event_loop, queue_size): allocates the bounded queue and starts the
\* wake and timer handles, or returns an error and leaves the queue unusable.
\* write() and close_handles() are called on a queue whose init() returned 0
QueueInit(status) ==
  /\ rq.init = "none"
  /\ rq' = IF status = 0
           THEN [rq EXCEPT !.init = "ok", !.queue_size = QueueSize,
                           !.async_ = "idle", !.timer_ = "stopped"]
           ELSE [rq EXCEPT !.init = "error"]
  /\ UNCHANGED <<connVars, feed, loop, worker, producers, cycle, pool>>

\* struct Item: the callbacks are numbered in the order of the write() calls
Item(c, n) == [connection |-> c, callback |-> n]

InQueue(n) == \E i \in 1..Len(rq.queue_) : rq.queue_[i].callback = n

\* write(connection, callback), first step: the item is made. Whether the
\* queue was marked closing when the call started is noted
WriteBegin(p, c) ==
  /\ rq.init = "ok"
  /\ producers[p].pc = "idle"
  /\ rq.calls < MaxWrites
  /\ rq' = [rq EXCEPT !.calls = @ + 1]
  /\ producers' = [producers EXCEPT ![p] =
       [pc |-> "enqueue", connection |-> c, callback |-> rq.calls + 1,
        result |-> "none", signal |-> "none", closing |-> rq.is_closing_]]
  /\ UNCHANGED <<connVars, feed, loop, worker, cycle, pool>>

\* (variant: the item is enqueued whatever the queue holds)
WriteEnqueueUnbounded(p) ==
  /\ producers[p].pc = "enqueue"
  /\ producers' = [producers EXCEPT ![p].pc = "signal"]
  /\ rq' = [rq EXCEPT !.queue_ =
               Append(@, Item(producers[p].connection, producers[p].callback))]
  /\ UNCHANGED <<connVars, feed, loop, worker, cycle, pool>>

\* write(), second step: queue_->enqueue(item), refused when the queue is
\* full, the one case in which write() returns false
WriteEnqueue(p) ==
  /\ producers[p].pc = "enqueue"
  /\ IF Len(rq.queue_) >= rq.queue_size
     THEN /\ producers' = [producers EXCEPT ![p].pc = "idle", ![p].result = "full"]
          /\ rq' = rq
     ELSE /\ producers' = [producers EXCEPT ![p].pc = "signal"]
          /\ rq' = [rq EXCEPT !.queue_ =
                       Append(@, Item(producers[p].connection,
                                      producers[p].callback))]
  /\ UNCHANGED <<connVars, feed, loop, worker, cycle, pool>>

\* (variant: the wake handle is signalled whatever is_flushing_ holds)
WriteSignalAlways(p) ==
  /\ producers[p].pc = "signal"
  /\ producers' = [producers EXCEPT
       ![p].pc = "idle", ![p].result = "queued",
       ![p].signal = IF rq.async_ = "closed" THEN "closed" ELSE "sent"]
  /\ rq' = [rq EXCEPT !.is_flushing_ = TRUE,
                      !.async_ = IF @ = "closed" THEN @ ELSE "pending"]
  /\ UNCHANGED <<connVars, feed, loop, worker, cycle, pool>>

\* write(), last step: is_flushing_ is tested and set in one atomic operation
\* and the wake handle is signalled by the write() that set it; while it is
\* set a wake is due or a flush is executing or its timer is armed, and the
\* write() signals nothing. What the signal met is noted: a handle that
\* close_handles() has stopped takes no signal
WriteSignal(p) ==
  /\ producers[p].pc = "signal"
  /\ producers' = [producers EXCEPT
       ![p].pc = "idle", ![p].result = "queued",
       ![p].signal = IF rq.is_flushing_ THEN "coalesced"
                     ELSE IF rq.async_ = "closed" THEN "closed" ELSE "sent"]
  /\ rq' = IF rq.is_flushing_ THEN rq
           ELSE [rq EXCEPT !.is_flushing_ = TRUE,
                           !.async_ = IF @ = "closed" THEN @ ELSE "pending"]
  /\ UNCHANGED <<connVars, feed, loop, worker, cycle, pool>>

\* what close_handles() does to the queue: marks it closing and stops the
\* wake handle and the timer
MarkClosing(q) ==
  [q EXCEPT !.is_closing_ = TRUE, !.async_ = "closed", !.timer_ = "closed"]

\* close_handles()
CloseHandles ==
  /\ rq.init = "ok"
  /\ rq' = MarkClosing(rq)
  /\ UNCHANGED <<connVars, feed, loop, worker, producers, cycle, pool>>

\* handle_flush() is entered: one more execution of it is in progress
EnterFlush ==
  [NoCycle EXCEPT !.running = cycle.running + 1,
                  !.free = [c \in Connections |-> pool[c].available]]

\* on_flush(async): the wake handle's callback enters handle_flush()
OnFlush ==
  /\ rq.async_ = "pending"
  /\ rq' = [rq EXCEPT !.async_ = "idle"]
  /\ worker' = "drain"
  /\ cycle' = EnterFlush
  /\ UNCHANGED <<connVars, feed, loop, producers, pool>>

\* on_flush_timer(timer): the fallback timer's callback enters handle_flush()
OnFlushTimer ==
  /\ rq.timer_ = "armed"
  /\ rq' = [rq EXCEPT !.timer_ = "stopped"]
  /\ worker' = "drain"
  /\ cycle' = EnterFlush
  /\ UNCHANGED <<connVars, feed, loop, producers, pool>>

\* (variant: the connection is recorded once per item)
TouchAgain(set, c) == set \o <<c>>

\* connections_.insert(c): the connections awaiting flush, each held once
Touch(set, c) == IF \E i \in 1..Len(set) : set[i] = c THEN set ELSE set \o <<c>>

\* the connection's submit: it takes a stream id and writes the frame, or
\* has no free stream id and writes nothing
Submit(c) ==
  IF pool[c].available > 0
  THEN [pool EXCEPT ![c].available = @ - 1, ![c].pending = @ + 1]
  ELSE pool

\* handle_flush(), one turn of the drain loop: dequeue an item and submit it
\* to its connection; a refused submission is reported to the item's callback
FlushDrain ==
  /\ worker = "drain" /\ Len(rq.queue_) > 0
  /\ LET c == Head(rq.queue_).connection
         ok == Submit(c) # pool
     IN /\ rq' = [rq EXCEPT !.queue_ = Tail(@),
                            !.connections_ = Touch(@, c)]
        /\ pool' = Submit(c)
        /\ cycle' = [cycle EXCEPT !.drained = Append(@, c),
                                  !.writes[c] = IF ok THEN @ + 1 ELSE @,
                                  !.errors[c] = IF ok THEN @ ELSE @ + 1]
  /\ UNCHANGED <<connVars, feed, loop, worker, producers>>

\* the flushes of a cycle: each connection awaiting flush sends what was
\* written to it
Flushed ==
  [c \in Connections |->
     IF Occurrences(rq.connections_, c) > 0
     THEN [pool[c] EXCEPT !.pending = 0] ELSE pool[c]]

\* (variant: the backed-off timer leaves is_flushing_ set)
FlushFinishKeepsGuard ==
  /\ worker = "drain" /\ Len(rq.queue_) = 0
  /\ cycle' = [cycle EXCEPT
       !.flushes = [c \in Connections |-> Occurrences(rq.connections_, c)],
       !.running = @ - 1,
       !.done = TRUE]
  /\ worker' = IF cycle.running > 1 THEN "drain" ELSE "idle"
  /\ pool' = Flushed
  /\ LET worked == Len(rq.connections_) > 0
         idle == IF worked THEN 0 ELSE rq.flushes_without_writes_ + 1
     IN rq' = IF rq.is_closing_
              THEN [rq EXCEPT !.connections_ = <<>>]
              ELSE IF idle > IdleLimit
              THEN [rq EXCEPT !.connections_ = <<>>, !.is_flushing_ = TRUE,
                              !.flushes_without_writes_ = idle,
                              !.timer_ = "stopped"]
              ELSE [rq EXCEPT !.connections_ = <<>>, !.is_flushing_ = TRUE,
                              !.flushes_without_writes_ = idle,
                              !.timer_ = "armed"]
  /\ UNCHANGED <<connVars, feed, loop, producers>>

\* handle_flush() once the queue is drained: one flush per connection
\* awaiting it; then, unless the queue is closing, the timer is re-armed, or
\* after more than IdleLimit cycles without work it is left stopped and
\* is_flushing_ is cleared
FlushFinish ==
  /\ worker = "drain" /\ Len(rq.queue_) = 0
  /\ cycle' = [cycle EXCEPT
       !.flushes = [c \in Connections |-> Occurrences(rq.connections_, c)],
       !.running = @ - 1,
       !.done = TRUE]
  /\ worker' = IF cycle.running > 1 THEN "drain" ELSE "idle"
  /\ pool' = Flushed
  /\ LET worked == Len(rq.connections_) > 0
         idle == IF worked THEN 0 ELSE rq.flushes_without_writes_ + 1
     IN rq' = IF rq.is_closing_
              THEN [rq EXCEPT !.connections_ = <<>>]
              ELSE IF idle > IdleLimit
              THEN [rq EXCEPT !.connections_ = <<>>, !.is_flushing_ = FALSE,
                              !.flushes_without_writes_ = idle,
                              !.timer_ = "stopped"]
              ELSE [rq EXCEPT !.connections_ = <<>>, !.is_flushing_ = TRUE,
                              !.flushes_without_writes_ = idle,
                              !.timer_ = "armed"]
  /\ UNCHANGED <<connVars, feed, loop, producers>>

----------------------------------------------------------------------------
(* Specifications *)

Frame(opcode, stream, body) == [opcode |-> opcode, stream |-> stream, body |-> body]

SupportedFrame == Frame(CQL_OPCODE_SUPPORTED, 0, <<>>)

ReadyFrame == Frame(CQL_OPCODE_READY, 1, <<>>)

ResultFrame(stream, kind) == Frame(CQL_OPCODE_RESULT, stream, <<kind>>)

\* the frames the server sends in the general specification
Frames ==
  {SupportedFrame, ReadyFrame}
  \cup {Frame(CQL_OPCODE_ERROR, 2, <<>>)}
  \cup {ResultFrame(s, CASS_RESULT_KIND_ROWS) : s \in {2, 3, 90}}
  \cup {ResultFrame(2, CASS_RESULT_KIND_SET_KEYSPACE),
        ResultFrame(2, CASS_RESULT_KIND_PREPARED)}
  \cup {ResultFrame(-1, CASS_RESULT_KIND_ROWS), Frame(CQL_OPCODE_EVENT, 2, <<>>)}

\* a read brings one frame, or one frame and the frame after it
Chunks ==
  {Encode(f) : f \in Frames}
  \cup {Encode(f) \o Encode(ResultFrame(3, CASS_RESULT_KIND_ROWS)) : f \in Frames}

\* whole frames only: every header holds its body's length
FramesIn(buffer) ==
  IF Len(buffer) = 0 THEN 0
  ELSE IF Len(buffer) = HeaderSize + buffer[HeaderSize] THEN 1 ELSE 2

\* the chunk is within the frames the server sends in a run
Arrive(buffer) == obs.frames + FramesIn(buffer) <= MaxFrames

\* the reads of a connection with SSL: up to MaxSslCalls read_write calls, which
\* yield one frame between them, or none during the handshake
RECURSIVE SslFramesIn(_)
SslFramesIn(calls) ==
  IF Len(calls) = 0 THEN 0
  ELSE FramesIn(Head(calls).output) + SslFramesIn(Tail(calls))

SslOutputs ==
  {<<>>} \cup {Encode(f) : f \in {SupportedFrame, ReadyFrame,
                                  ResultFrame(2, CASS_RESULT_KIND_ROWS)}}

\* the calls of a session whose handshake is complete
DataCalls == [output : SslOutputs, write : {FALSE}, done : {FALSE}]

\* the calls of a session in its handshake
HandshakeCalls == [output : {<<>>}, write : BOOLEAN, done : BOOLEAN]

\* reads on a session whose handshake is complete
SslReadsData ==
  {calls \in UNION {[1..n -> DataCalls] : n \in 1..MaxSslCalls} :
     SslSessionOk(calls, TRUE) /\ SslFramesIn(calls) <= 1}

\* reads on a session in its handshake: k calls of the handshake, which it
\* completes in the last of them or not at all, then calls that yield data
SslReadsHandshake ==
  UNION {{hs \o data : hs \in {p \in [1..k -> HandshakeCalls] :
                                  SslSessionOk(p, FALSE) /\ (k < n => p[k].done)},
                       data \in {d \in [1..(n - k) -> DataCalls] :
                                   SslFramesIn(d) <= 1}} :
         n \in 1..MaxSslCalls, k \in 1..MaxSslCalls}

\* the read is within the frames the server sends in a run, and the options
\* frame has not yet been sent MaxOptions times
ArriveSsl(calls) ==
  /\ obs.frames + SslFramesIn(calls) <= MaxFrames
  /\ sent.OPTIONS < MaxOptions

Configs(ssl, ndebug, keyspace) ==
  [ssl_ : ssl, ssl_handshake_done_ : {FALSE}, ndebug : ndebug,
   connect_callback_ : {TRUE}, request_finished_callback_ : {TRUE},
   keyspace_callback_ : keyspace, prepare_callback_ : {FALSE}]

\* the state after construction, for a configuration among cfgs
InitWith(cfgs) ==
  /\ cfg \in cfgs
  /\ state_ = "NEW"
  /\ stream_storage_ = EmptyStorage
  /\ incoming_ = <<>>
  /\ ssl_hs = FALSE
  /\ sock = [inited |-> FALSE, connecting |-> FALSE, reading |-> FALSE,
             closing |-> FALSE, closed |-> FALSE, writing |-> FALSE]
  /\ sent = [OPTIONS |-> 0, STARTUP |-> 0, QUERY |-> 0, KEYSPACE |-> 0, TLS |-> 0]
  /\ futures = <<>>
  /\ steps = <<>>
  /\ obs = [crashed |-> FALSE, ub |-> FALSE, orphan |-> FALSE, later |-> FALSE,
            malformed |-> FALSE, sockerr |-> FALSE, errored |-> {},
            called |-> {}, keyspace_calls |-> 0, frames |-> 0]
  /\ rq = [queue_ |-> <<>>, queue_size |-> 0, connections_ |-> <<>>,
           is_flushing_ |-> FALSE, is_closing_ |-> FALSE,
           flushes_without_writes_ |-> 0,
           async_ |-> "unset", timer_ |-> "unset", init |-> "none", calls |-> 0]
  /\ worker = "idle"
  /\ producers = [p \in Producers |->
                    [pc |-> "idle", connection |-> 1, callback |-> 0,
                     result |-> "none", signal |-> "none", closing |-> FALSE]]
  /\ cycle = NoCycle

\* no byte stream is followed
NoFeed == [whole |-> <<>>, rest |-> <<>>, frames |-> <<>>, expect |-> <<>>,
           log |-> <<>>, chunks |-> 0]

\* no call of consume() is followed turn by turn
NoLoop == [pc |-> "idle", input |-> <<>>, size |-> 0, remaining |-> 0,
           buffer |-> 0, iterations |-> 0]

Init ==
  /\ InitWith(Configs(BOOLEAN, BOOLEAN, {TRUE}))
  /\ feed = NoFeed /\ loop = NoLoop /\ pool = FullPool

\* every operation of the connection, in any order
Next ==
  \/ DoInit
  \/ \E status \in {0, -1} : OnConnect(status, EnvOk)
  \/ \E buffer \in Chunks, env \in ReadEnvs :
        /\ Arrive(buffer)
        /\ OnRead(buffer, env)
  \/ \E calls \in (IF ssl_hs THEN SslReadsData ELSE SslReadsHandshake),
        env \in ReadEnvs :
        /\ ArriveSsl(calls)
        /\ OnReadSsl(calls, env)
  \/ OnReadError
  \/ \E status \in {0, -1} : OnWrite(status)
  \/ DoClose
  \/ OnClose
  \/ Len(futures) < MaxRequests /\ \E env \in CallEnvs : DoExecute(env)
  \/ \E env \in CallEnvs : SetKeyspace(env)

Spec == Init /\ [][Next]_vars

\* The fill scenario: a connection without SSL completes its handshake, the
\* application submits FillSubmit requests while no response arrives, then
\* FillAnswer of the outstanding requests are answered in turn, then
\* FillAnswer more requests are submitted.
InitFill ==
  /\ InitWith(Configs({FALSE}, BOOLEAN, {TRUE}))
  /\ feed = NoFeed /\ loop = NoLoop /\ pool = FullPool

Answered == Cardinality({r \in 1..Len(futures) : futures[r].notified > 0})

Outstanding == {r \in 1..Len(futures) : futures[r].held}

NextAnswer ==
  ResultFrame(futures[CHOOSE r \in Outstanding : \A q \in Outstanding : r <= q].stream,
              CASS_RESULT_KIND_ROWS)

NextFill ==
  \/ DoInit
  \/ OnConnect(0, EnvOk)
  \/ state_ = "HANDSHAKE" /\ OnRead(Encode(SupportedFrame), EnvOk)
  \/ state_ = "SUPPORTED" /\ OnRead(Encode(ReadyFrame), EnvOk)
  \/ Answered = 0 /\ Len(futures) < FillSubmit /\ DoExecute(EnvOk)
  \/ /\ Len(futures) = FillSubmit /\ Answered < FillAnswer
     /\ Outstanding # {}
     /\ OnRead(Encode(NextAnswer), EnvOk)
  \/ /\ Answered = FillAnswer /\ Len(futures) < FillSubmit + FillAnswer
     /\ DoExecute(EnvOk)

SpecFill == InitFill /\ [][NextFill]_vars

\* The request queue with its producers and its worker
NextQueue ==
  \/ \E status \in {0, -1} : QueueInit(status)
  \/ \E p \in Producers, c \in Connections : WriteBegin(p, c)
  \/ \E p \in Producers : WriteEnqueue(p)
  \/ \E p \in Producers : WriteSignal(p)
  \/ CloseHandles
  \/ OnFlush
  \/ OnFlushTimer
  \/ FlushDrain
  \/ FlushFinish

InitQueue ==
  /\ InitWith(Configs({FALSE}, {FALSE}, {TRUE}))
  /\ feed = NoFeed /\ loop = NoLoop /\ pool \in Pools

SpecQueue == InitQueue /\ [][NextQueue]_vars

\* A queue that is not closed, under fair scheduling: the worker's loop runs
\* every callback that is due and finishes the flush it started, and a
\* producer thread finishes the write() it is in
QueueFairness ==
  /\ WF_vars(OnFlush)
  /\ WF_vars(OnFlushTimer)
  /\ WF_vars(FlushDrain)
  /\ WF_vars(FlushFinish)
  /\ WF_vars(\E p \in Producers : WriteEnqueue(p))
  /\ WF_vars(\E p \in Producers : WriteSignal(p))

\* every item is for the first connection
NextQueueFair ==
  \/ \E status \in {0, -1} : QueueInit(status)
  \/ \E p \in Producers : WriteBegin(p, 1)
  \/ \E p \in Producers : WriteEnqueue(p)
  \/ \E p \in Producers : WriteSignal(p)
  \/ OnFlush
  \/ OnFlushTimer
  \/ FlushDrain
  \/ FlushFinish

SpecQueueFair == InitQueue /\ [][NextQueueFair]_vars /\ QueueFairness

\* Chunked delivery: the server's frames form one byte stream, which reaches
\* on_read cut into chunks of any sizes
FeedFrames ==
  {SupportedFrame, ReadyFrame,
   Frame(CQL_OPCODE_ERROR, 2, <<9, 9>>),
   ResultFrame(2, CASS_RESULT_KIND_SET_KEYSPACE),
   ResultFrame(-1, CASS_RESULT_KIND_SET_KEYSPACE),
   Frame(CQL_OPCODE_EVENT, 2, <<>>)}

FrameSeqs == UNION {[1..n -> FeedFrames] : n \in 1..MaxFeedFrames}

RECURSIVE EncodeAll(_)
EncodeAll(fs) == IF Len(fs) = 0 THEN <<>> ELSE Encode(Head(fs)) \o EncodeAll(Tail(fs))

InitFrames ==
  /\ InitWith(Configs({FALSE}, BOOLEAN, {TRUE}))
  /\ loop = NoLoop /\ pool = FullPool
  /\ \E fs \in FrameSeqs :
       feed = [whole |-> EncodeAll(fs), rest |-> EncodeAll(fs),
               frames |-> [i \in 1..Len(fs) |-> <<fs[i].opcode, fs[i].stream>>],
               expect |-> <<>>, log |-> <<>>, chunks |-> 0]

\* on_read(client, nread, buf) with the next nread bytes of the stream. Before
\* the first chunk, what consume() logs for the whole stream in one chunk is
\* noted for comparison
Feed(nread) ==
  /\ Alive /\ sock.reading /\ ~sock.closing /\ ~cfg.ssl_
  /\ nread \in 1..Len(feed.rest)
  /\ LET w == Consume(Enter(World), SubSeq(feed.rest, 1, nread), EnvOk)
     IN /\ Commit(w)
        /\ feed' = [feed EXCEPT
              !.rest = SubSeq(@, nread + 1, Len(@)),
              !.log = @ \o w.dispatched,
              !.chunks = @ + 1,
              !.expect = IF feed.chunks = 0
                         THEN Consume(Enter(World), feed.whole, EnvOk).dispatched
                         ELSE @]
  /\ UNCHANGED <<cfg, loop, queueVars>>

NextFrames ==
  \/ DoInit
  \/ OnConnect(0, EnvOk)
  \/ \E nread \in 1..Len(feed.rest) : Feed(nread)

SpecFrames == InitFrames /\ [][NextFrames]_vars

\* One call of consume(input, size), a turn of its loop at a time. The framer
\* (incoming_->consume) either takes bytes as a frame assembler does, reading
\* them at the cursor, or reports an error (a negative count), or takes nothing.
FramerOutcomes == {"bytes", "error", "zero"}

\* the bytes buffer .. buffer + remaining lie within the chunk
InsideInput(l) == l.buffer >= 0 /\ l.buffer + l.remaining <= l.size

\* what a byte of the memory in front of the chunk may hold: anything
OutsideBytes == 0..255

\* the bytes between the cursor and the start of the chunk, when the cursor
\* is in front of the chunk
OutsideReads ==
  [1..(IF loop.buffer < 0 THEN 0 - loop.buffer ELSE 0) -> OutsideBytes]

\* the framer reads memory outside the chunk: undefined behaviour, which
\* either faults or goes unnoticed
OutOfBounds(w, fault) ==
  [w EXCEPT !.obs.ub = TRUE,
            !.obs.crashed = @ \/ fault]

\* the chunks consume() is followed on: one frame, or two frames
ConsumeInputs ==
  {Encode(f) : f \in FeedFrames}
  \cup {Encode(SupportedFrame) \o Encode(ReadyFrame)}

InitConsume ==
  /\ InitWith(Configs({FALSE}, BOOLEAN, {TRUE}))
  /\ feed = NoFeed /\ loop = NoLoop /\ pool = FullPool

\* on_read(client, nread, buf) on a connection without SSL calls
\* consume(buf.base, nread): the locals are set up
ConsumeEnter(input) ==
  /\ Alive /\ sock.reading /\ ~sock.closing /\ ~cfg.ssl_
  /\ loop.pc = "idle"
  /\ Commit(Enter(World))
  /\ loop' = [pc |-> "loop", input |-> input, size |-> Len(input),
              remaining |-> Len(input), buffer |-> 0, iterations |-> 0]
  /\ UNCHANGED <<cfg, feed, queueVars>>

\* one turn of "while (remaining != 0)". The framer is handed the remaining
\* bytes from the cursor on: with the cursor in front of the chunk these are
\* the bytes found there (outside), then the chunk, unless the read faults,
\* which ends the program before the locals are updated. What a null request
\* does in a handler the turn calls is env's choice, apart from that
ConsumeStep(outcome, env, outside, fault) ==
  /\ Alive /\ loop.pc = "loop" /\ loop.remaining # 0
  /\ loop.iterations < MaxIterations
  /\ LET inside == InsideInput(loop)
         reads == outcome = "bytes" /\ ~inside
         from == IF loop.buffer < 0 THEN 0 ELSE loop.buffer
         view == outside \o SubSeq(loop.input, from + 1,
                                   loop.buffer + loop.remaining)
         c == MessageConsume(incoming_, view)
         w0 == IF reads THEN OutOfBounds(World, fault) ELSE World
         consumed == CASE outcome = "error" -> -1
                       [] outcome = "zero" -> 0
                       [] w0.obs.crashed -> 0
                       [] OTHER -> c.consumed
         w == CASE outcome # "bytes" -> w0
                [] w0.obs.crashed -> w0
                [] c.body_ready ->
                     Dispatch([w0 EXCEPT !.incoming_ = <<>>], Decode(c.m), env)
                [] OTHER -> [w0 EXCEPT !.incoming_ = c.m]
     IN /\ fault => reads
        /\ outside \in (IF reads /\ ~fault THEN OutsideReads ELSE {<<>>})
        /\ Commit(w)
        /\ loop' = [loop EXCEPT !.remaining = @ - consumed,
                                !.buffer = @ + consumed,
                                !.iterations = @ + 1]
  /\ UNCHANGED <<cfg, feed, queueVars>>

\* the loop ends and consume() returns
ConsumeReturn ==
  /\ Alive /\ loop.pc = "loop" /\ loop.remaining = 0
  /\ loop' = [loop EXCEPT !.pc = "done"]
  /\ UNCHANGED <<connVars, cfg, feed, queueVars>>

NextConsume ==
  \/ DoInit
  \/ OnConnect(0, EnvOk)
  \/ \E input \in ConsumeInputs : ConsumeEnter(input)
  \/ /\ loop.pc = "loop" /\ loop.iterations < MaxIterations
     /\ \E outcome \in FramerOutcomes, env \in ReadEnvs, fault \in BOOLEAN :
          \E outside \in (IF outcome = "bytes" /\ ~InsideInput(loop) /\ ~fault
                          THEN OutsideReads ELSE {<<>>}) :
            ConsumeStep(outcome, env, outside, fault)
  \/ ConsumeReturn

SpecConsume == InitConsume /\ [][NextConsume]_vars

----------------------------------------------------------------------------
(* Properties *)

Closing == state_ \in {"DISCONNECTING", "DISCONNECTED"}

Accepted == {r \in 1..Len(futures) : futures[r].ret = "ok"}

\* C1: once on_close has run, the connection is Disconnected and every request
\* that execute accepted has been resolved exactly once, those still
\* outstanding at the close with a connection-closed failure; none is pending.
C1_CloseResolvesAll ==
  sock.closed =>
    /\ state_ = "DISCONNECTED"
    /\ \A r \in Accepted :
         /\ futures[r].notified = 1
         /\ ~futures[r].held
         /\ futures[r].result \in {"result", "closed"}

\* C2: a stream id given out by execute identifies exactly one outstanding
\* request until a response releases it: the storage maps the id to that
\* request, and no two outstanding requests hold the same id.
C2_UniqueStreams ==
  \A r \in Outstanding :
    /\ futures[r].stream \in DOMAIN stream_storage_
    /\ stream_storage_[futures[r].stream] = r
    /\ \A q \in Outstanding : q # r => futures[q].stream # futures[r].stream

C2_TwoOutstanding ==
  \E r, q \in Outstanding : r # q /\ futures[r].stream # futures[q].stream

\* C3: on a ready connection with nothing outstanding, of the requests
\* submitted while no response arrives exactly the first 128 are accepted and
\* every later one fails with stream exhaustion; once FillAnswer of them are
\* answered, exactly FillAnswer further submissions are accepted.
C3_FillAccepts ==
  /\ Answered = 0 =>
       \A r \in 1..Len(futures) : (futures[r].ret = "ok") <=> (r <= 128)
  /\ Answered = FillAnswer =>
       \A r \in (FillSubmit + 1)..Len(futures) : futures[r].ret = "ok"

\* C4: an execute that finds no free stream id returns the error to its caller
\* and writes no frame: nothing is handed to send_data and the storage is left
\* as it was.
C4_ExhaustedNoSend ==
  [][(Len(futures') = Len(futures) + 1 /\ StorageAvailable(stream_storage_) = 0)
       => /\ futures'[Len(futures')].ret = "no_streams"
          /\ ~futures'[Len(futures')].held
          /\ sent' = sent
          /\ stream_storage_' = stream_storage_]_vars

C4_Rejected ==
  \E r \in 1..Len(futures) :
    futures[r].ret = "no_streams" /\ sent.QUERY = Cardinality(Accepted)

\* C5: after a result frame whose stream id has no occupant, no missing
\* request has been dereferenced, the process has not died, the connection is
\* closing, and no frame has been dispatched since.
C5_OrphanCloses ==
  obs.orphan => (~obs.ub /\ ~obs.crashed /\ Closing /\ ~obs.later)

\* C6 as written: without SSL the connection goes from New through Connected
\* to Supported to Ready and is never in the handshake state; the options are
\* sent on the connect completion, the startup on SUPPORTED, and the connect
\* callback is told of no error on READY.
C6_NoHandshakeState ==
  [][/\ state_' # "HANDSHAKE"
     /\ (state_ = "NEW" /\ state_' # state_)
          => steps' = <<"CONNECTED", "send_OPTIONS">>
     /\ (state_ = "CONNECTED" /\ state_' # state_)
          => steps' = <<"SUPPORTED", "send_STARTUP">>
     /\ (state_ = "SUPPORTED" /\ state_' # state_)
          => steps' = <<"READY", "connect_cb_ok">>
     /\ state_ = "READY" => state_' = "READY"]_vars

\* C6 amended: without SSL the connection goes from New through Connected and
\* Handshake (entered on the connect completion, where the options are sent)
\* to Supported (where the startup is sent) to Ready (where the connect
\* callback is told of no error), and stays Ready while requests are served.
C6_ThroughHandshake ==
  [][/\ (state_ = "NEW" /\ state_' # state_)
          => steps' = <<"CONNECTED", "HANDSHAKE", "send_OPTIONS">>
     /\ (state_ = "HANDSHAKE" /\ state_' # state_)
          => steps' = <<"SUPPORTED", "send_STARTUP">>
     /\ (state_ = "SUPPORTED" /\ state_' # state_)
          => steps' = <<"READY", "connect_cb_ok">>
     /\ state_ = "CONNECTED" => state_' = "CONNECTED"
     /\ state_ = "READY" => state_' = "READY"
     /\ sent'.OPTIONS <= 1 /\ sent'.STARTUP <= 1]_vars

C6_ReadyReached ==
  /\ ~cfg.ssl_
  /\ state_ = "READY" /\ steps = <<"READY", "connect_cb_ok">>
  /\ sent.OPTIONS = 1 /\ sent.STARTUP = 1

\* C7: a request for whose stream id an ERROR frame arrived while the
\* connection was Ready has been released and resolved with a server error.
C7_ServerErrorResolves ==
  \A r \in obs.errored :
    /\ ~futures[r].held
    /\ futures[r].stream \notin DOMAIN stream_storage_
    /\ futures[r].result = "server_error"
    /\ futures[r].notified = 1

\* C8: after a socket-level failure (read error, EOF, failed write completion)
\* the connection is Disconnecting or Disconnected.
C8_SocketErrorCloses == obs.sockerr => Closing

\* C9: after a complete malformed frame (unknown opcode or negative stream id)
\* the connection is closing and no assertion has failed.
C9_MalformedCloses == obs.malformed => (Closing /\ ~obs.crashed)

C11_Backpressure ==
  [][/\ Len(rq'.queue_) <= QueueSize
     /\ \A i, j \in 1..Len(rq'.queue_) :
          i # j => rq'.queue_[i].callback # rq'.queue_[j].callback
     /\ \A p \in Producers :
          /\ (WriteEnqueue(p) /\ Len(rq.queue_) >= QueueSize)
               => /\ producers'[p].pc = "idle" /\ producers'[p].result = "full"
                  /\ rq'.queue_ = rq.queue_
          /\ (WriteEnqueue(p) /\ Len(rq.queue_) < QueueSize)
               => /\ Len(rq'.queue_) = Len(rq.queue_) + 1
                  /\ Cardinality({i \in 1..Len(rq'.queue_) :
                        rq'.queue_[i] = Item(producers[p].connection,
                                            producers[p].callback)}) = 1
          /\ (producers'[p].pc = "idle"
                /\ producers'[p].result = "full")
               => \A i \in 1..Len(rq'.queue_) :
                     rq'.queue_[i].callback # producers'[p].callback]_vars

C11_FullWhileConcurrent ==
  /\ Len(rq.queue_) = QueueSize
  /\ \E p, q \in Producers :
       /\ p # q
       /\ producers[p].pc = "idle" /\ producers[p].result = "full"
       /\ producers[q].pc = "signal"

\* C12: close_handles() called again changes nothing more than the first call
\* did; a write() that started once the queue was marked closing returns
\* failure and its item is not enqueued; and no write(), whenever it started,
\* signals a handle that close_handles() has stopped.
C12_CloseIdempotent ==
  [][/\ (CloseHandles /\ rq.is_closing_) => rq' = rq
     /\ \A p \in Producers :
          /\ (producers'[p].closing /\ producers'[p].pc = "idle")
               => /\ producers'[p].result # "queued"
                  /\ ~\E i \in 1..Len(rq'.queue_) :
                        rq'.queue_[i].callback = producers'[p].callback
          /\ producers'[p].signal # "closed"]_vars

\* C15: at most one execution of handle_flush() is in progress, whichever of
\* the wake and the timer enters it and whenever they are due, because
\* is_flushing_ is set whenever a wake is due, the timer is armed or an
\* execution is in progress, and these never hold two at a time; the
\* connections awaiting flush hold each connection at most once, and none is
\* left between two flush cycles.
C15_OneFlushAtATime ==
  /\ cycle.running <= 1
  /\ (cycle.running > 0 \/ rq.async_ = "pending" \/ rq.timer_ = "armed")
       => rq.is_flushing_
  /\ cycle.running
       + (IF rq.async_ = "pending" THEN 1 ELSE 0)
       + (IF rq.timer_ = "armed" THEN 1 ELSE 0) <= 1
  /\ (worker = "drain") = (cycle.running > 0)
  /\ \A c \in Connections : Occurrences(rq.connections_, c) <= 1
  /\ cycle.running = 0 => rq.connections_ = <<>>

C15_WakeDuringFlush ==
  /\ cycle.running = 1
  /\ \E p \in Producers :
       /\ producers[p].pc = "idle" /\ producers[p].signal = "coalesced"
       /\ InQueue(producers[p].callback)
  /\ Len(rq.connections_) = NumConnections
  /\ Len(cycle.drained) > NumConnections

C14_ChunkingInvisible ==
  /\ feed.chunks > 0 => feed.log = SubSeq(feed.expect, 1, Len(feed.log))
  /\ (feed.chunks > 0 /\ feed.rest = <<>> /\ Alive)
       => /\ feed.log = feed.expect
          /\ feed.log = feed.frames
          /\ incoming_ = <<>>
  /\ Len(incoming_) >= HeaderSize
       => Len(incoming_) < HeaderSize + incoming_[HeaderSize]

C14_ByteByByte ==
  /\ feed.rest = <<>> /\ Alive
  /\ feed.chunks = Len(feed.whole)
  /\ Len(feed.whole) > 2 * HeaderSize
  /\ Len(feed.log) = MaxFeedFrames

\* C13: a read that brings one RESULT frame of kind set-keyspace calls the
\* keyspace callback when one is registered, and changes no request: no
\* result or error is set and no request is notified, whether or not a
\* request is pending on the frame's stream id.
C13_KeyspaceSideChannel ==
  [][\A stream \in {2, 3}, env \in ReadEnvs :
       OnRead(Encode(ResultFrame(stream, CASS_RESULT_KIND_SET_KEYSPACE)), env)
         => /\ futures' = futures
            /\ "notify" \notin obs'.called
            /\ cfg.keyspace_callback_ => "keyspace" \in obs'.called]_vars

C13_KeyspaceWhilePending ==
  /\ "keyspace" \in obs.called /\ "notify" \notin obs.called
  /\ obs.keyspace_calls > 0
  /\ \E r \in Outstanding : futures[r].stream = 2 /\ futures[r].notified = 0

\* C17: on a connection with SSL the options frame is sent only once the
\* session's handshake is complete, and once a read has left the handshake
\* complete the connection has left the state Connected and the options frame
\* has been sent.
C17_HandshakeAdvances ==
  cfg.ssl_ =>
    /\ sent.OPTIONS > 0 => ssl_hs
    /\ ssl_hs => /\ sent.OPTIONS > 0
                 /\ StateRank(state_) >= StateRank("HANDSHAKE")

\* C18: the state never moves backward in the order of the enumeration, and
\* the options frame and the startup frame are sent at most once each.
C18_MonotonicNoResend ==
  [][/\ StateRank(state_') >= StateRank(state_)
     /\ sent'.OPTIONS <= 1
     /\ sent'.STARTUP <= 1]_vars

\* C19: when the connection is Ready, no request of the application is
\* outstanding and set_keyspace was never called, every stream id is free.
C19_InternalFramesFree ==
  (state_ = "READY" /\ Outstanding = {} /\ obs.keyspace_calls = 0)
    => StorageAvailable(stream_storage_) = Capacity

\* C20: an execute that returns an error, for want of a stream id or because
\* prepare failed, leaves the stream storage as it was.
C20_FailedExecuteFrees ==
  [][(Len(futures') = Len(futures) + 1 /\ futures'[Len(futures')].ret # "ok")
       => /\ stream_storage_' = stream_storage_
          /\ ~futures'[Len(futures')].held]_vars

\* C21: every turn of consume()'s loop leaves fewer bytes remaining than it
\* found, never more than size, whatever the framer answers, and leaves the
\* read cursor within the chunk.
C21_ConsumeTerminates ==
  [][(loop.pc = "loop" /\ loop'.iterations = loop.iterations + 1)
       => /\ loop'.remaining < loop.remaining
          /\ loop'.remaining >= 0 /\ loop'.remaining <= loop.size
          /\ loop'.buffer >= 0 /\ loop'.buffer <= loop.size]_vars

====
